---- MODULE Spec2Model ----
(***************************************************************************)
(* Model of src/bot.py: the webhook intake, the executor's worker pool and *)
(* process_document, with the Telegram channel, the /tmp directory and the *)
(* Hugging Face provider as the environment.                               *)
(*                                                                         *)
(* Texts are sequences of one-character strings, so that suffix tests,    *)
(* strip, split and slicing are computed as the Python code computes them. *)
(***************************************************************************)
EXTENDS Integers, Sequences, FiniteSets, TLC

\* ------------------------------------------------------------------ bounds

\* Number of updates Telegram delivers to the webhook in one run.
MaxUpdates == 2

\* ------------------------------------------------------- program constants

\* executor = ThreadPoolExecutor(max_workers=3)
max_workers == 3

\* 20 * 1024 * 1024, the size ceiling of process_document.
MaxFileSize == 20971520

\* max_chars = 3000 in prepare_episode_text.
max_chars == 3000

\* len(episode_text) < 100 in process_document.
MinEpisodeChars == 100

\* --------------------------------------------------------- string helpers

Whitespace == {" ", "\n", "\t", "\r"}

Digits == {"0", "1", "2", "3", "4", "5", "6", "7", "8", "9"}

\* str.lower() on the characters the model's file names use.
LowerChar(c) ==
  CASE c = "A" -> "a" [] c = "B" -> "b" [] c = "C" -> "c" [] c = "D" -> "d"
    [] c = "O" -> "o" [] c = "R" -> "r" [] c = "S" -> "s" [] c = "T" -> "t"
    [] c = "X" -> "x"
    [] OTHER -> c

lower(s) == [i \in 1..Len(s) |-> LowerChar(s[i])]

\* str.endswith(suffix)
endswith(s, suffix) ==
  /\ Len(s) >= Len(suffix)
  /\ SubSeq(s, Len(s) - Len(suffix) + 1, Len(s)) = suffix

\* pat in s
Contains(s, pat) ==
  \E j \in 1..(Len(s) - Len(pat) + 1) : SubSeq(s, j, j + Len(pat) - 1) = pat

\* str.strip(): leading and trailing whitespace removed.
strip(s) ==
  IF \A i \in 1..Len(s) : s[i] \in Whitespace
    THEN << >>
    ELSE LET a == CHOOSE i \in 1..Len(s) :
                    /\ s[i] \notin Whitespace
                    /\ \A j \in 1..(i - 1) : s[j] \in Whitespace
             b == CHOOSE i \in 1..Len(s) :
                    /\ s[i] \notin Whitespace
                    /\ \A j \in (i + 1)..Len(s) : s[j] \in Whitespace
         IN  SubSeq(s, a, b)

\* str.isdigit(): non-empty and every character a digit.
isdigit(s) == Len(s) > 0 /\ \A i \in 1..Len(s) : s[i] \in Digits

\* str.split(sep), scanning left to right from position i.
RECURSIVE SplitFrom(_, _, _)
SplitFrom(s, sep, i) ==
  LET m    == Len(sep)
      hits == {j \in i..(Len(s) - m + 1) : SubSeq(s, j, j + m - 1) = sep}
  IN  IF hits = {}
        THEN << SubSeq(s, i, Len(s)) >>
        ELSE LET j == CHOOSE h \in hits : \A k \in hits : h <= k
             IN  << SubSeq(s, i, j - 1) >> \o SplitFrom(s, sep, j + m)

split(s, sep) == SplitFrom(s, sep, 1)

\* sep.join(parts)
RECURSIVE join(_, _)
join(parts, sep) ==
  IF Len(parts) = 0 THEN << >>
  ELSE IF Len(parts) = 1 THEN parts[1]
  ELSE parts[1] \o sep \o join(Tail(parts), sep)

\* str.replace(pat, ""): every non-overlapping occurrence removed, left to right.
RECURSIVE RemoveAll(_, _)
RemoveAll(s, pat) ==
  IF Len(s) < Len(pat) THEN s
  ELSE IF SubSeq(s, 1, Len(pat)) = pat
         THEN RemoveAll(SubSeq(s, Len(pat) + 1, Len(s)), pat)
         ELSE << s[1] >> \o RemoveAll(Tail(s), pat)

\* decimal str(n) of a natural number
RECURSIVE str(_)
str(n) ==
  LET d == << "0", "1", "2", "3", "4", "5", "6", "7", "8", "9" >>
  IN  IF n < 10 THEN << d[n + 1] >> ELSE str(n \div 10) \o << d[(n % 10) + 1] >>

\* ---------------------------------------------------------- pure functions

HasBrackets(line) == "[" \in {line[i] : i \in 1..Len(line)} /\ "]" \in {line[i] : i \in 1..Len(line)}

Arrow == << "-", "-", ">" >>

\* The loop of prepare_episode_text: stripped lines that carry both brackets,
\* no "-->" and are not all digits.
CleanedLines(text) ==
  LET lines    == split(text, << "\n" >>)
      stripped == [i \in 1..Len(lines) |-> strip(lines[i])]
      Keep(line) == /\ Len(line) > 0
                    /\ HasBrackets(line)
                    /\ ~Contains(line, Arrow)
                    /\ ~isdigit(line)
  IN  SelectSeq(stripped, Keep)

\* Window with the tail taken right after the head, not from the end.
WindowTailAfterHead(episode_text) ==
  IF Len(episode_text) > max_chars
    THEN LET quarter == max_chars \div 4
         IN  SubSeq(episode_text, 1, quarter * 3)
               \o << ".", ".", "." >>
               \o SubSeq(episode_text, quarter * 3 + 1, quarter * 4)
    ELSE episode_text

\* Window with the length compared to the head's length, not to max_chars.
WindowAtThreeQuarters(episode_text) ==
  LET quarter == max_chars \div 4
  IN  IF Len(episode_text) > quarter * 3
        THEN SubSeq(episode_text, 1, quarter * 3)
               \o << ".", ".", "." >>
               \o SubSeq(episode_text, Len(episode_text) - quarter + 1, Len(episode_text))
        ELSE episode_text

\* The head-and-tail window of prepare_episode_text.
Window(episode_text) ==
  IF Len(episode_text) > max_chars
    THEN LET quarter == max_chars \div 4
         IN  SubSeq(episode_text, 1, quarter * 3)
               \o << ".", ".", "." >>
               \o SubSeq(episode_text, Len(episode_text) - quarter + 1, Len(episode_text))
    ELSE episode_text

prepare_episode_text(text) == Window(join(CleanedLines(text), << " " >>))

\* The dialogue lines of one SRT block: from the third line on, stripped,
\* non-empty, with both brackets.
BlockDialogue(block) ==
  LET lines == split(strip(block), << "\n" >>)
      Keep(line) == Len(line) > 0 /\ HasBrackets(line)
  IN  IF Len(lines) >= 3
        THEN SelectSeq([i \in 1..(Len(lines) - 2) |-> strip(lines[i + 2])], Keep)
        ELSE << >>

RECURSIVE ConcatAll(_)
ConcatAll(seqs) ==
  IF Len(seqs) = 0 THEN << >> ELSE seqs[1] \o ConcatAll(Tail(seqs))

\* extract_text_from_srt on the decoded content of the file.
extract_text_from_srt(content) ==
  LET blocks == split(strip(content), << "\n", "\n" >>)
      dialogue_lines == ConcatAll([i \in 1..Len(blocks) |-> BlockDialogue(blocks[i])])
  IN  join(dialogue_lines, << "\n" >>)

\* extract_text_from_docx on the paragraph texts of the document.
extract_text_from_docx(paragraphs) ==
  LET Keep(p) == Len(p) > 0
      text_parts == SelectSeq([i \in 1..Len(paragraphs) |-> strip(paragraphs[i])], Keep)
  IN  join(text_parts, << "\n" >>)

SuffixSrt == << ".", "s", "r", "t" >>

SuffixDocx == << ".", "d", "o", "c", "x" >>

\* The extension test of process_document (line 290).
SupportedName(file_name) ==
  endswith(lower(file_name), SuffixDocx) \/ endswith(lower(file_name), SuffixSrt)

\* TooLarge with the ceiling itself counted as too large.
TooLargeInclusive(file_size) == file_size >= MaxFileSize

\* The size test of process_document (line 285).
TooLarge(file_size) == file_size > MaxFileSize

\* ------------------------------------------------------------ message texts

\* A message text: which literal of bot.py it is, and the value formatted into it.
Text(kind, arg) == [kind |-> kind, arg |-> arg]

NoText == Text("none", << >>)

\* line 286
TxtTooLarge == Text("too_large", << >>)

\* lines 293-294
TxtUnsupported == Text("unsupported_format", << >>)

\* line 299
TxtAnalyzing == Text("analyzing", << >>)

\* line 311
TxtDownloadFailed == Text("download_failed", << >>)

\* line 322
TxtNoDialogue == Text("no_dialogue", << >>)

\* line 328
TxtInsufficient == Text("insufficient_dialogue", << >>)

\* line 331
TxtGenerating == Text("generating_summary", << >>)

\* lines 350-351, with str(e)
TxtProcessingError(e) == Text("processing_error", e)

\* lines 235, 237
TxtModelFailed == Text("model_failed", << >>)

TxtUnexpectedFormat == Text("unexpected_response_format", << >>)

\* lines 239 and 247
TxtModelLoading == Text("model_loading", << >>)

\* lines 241 and 249
TxtRateLimited == Text("rate_limited", << >>)

\* lines 243 and 251, with the status code
TxtApiError(code) == Text("api_error", str(code))

\* line 254, with str(e)
TxtApiException(e) == Text("api_exception", e)

\* The texts that show a status message as still in progress.
InProgressTexts == {TxtAnalyzing, TxtGenerating}

\* format_episode_summary: the title is the file name with every ".srt" and
\* ".docx" removed (case-sensitively), the body is the stripped summary.
format_episode_summary(summary, file_name) ==
  LET episode_name == RemoveAll(RemoveAll(file_name, SuffixSrt), SuffixDocx)
  IN  Text("episode_summary", episode_name \o << "|" >> \o strip(summary))

\* ------------------------------------------------- summarization provider

\* What urlopen of call_huggingface_api can do: return a response (status and
\* decoded body), raise HTTPError with a code, or raise another exception.
\* A body is invalid JSON, a non-list, or a list whose first item has the two
\* fields the code reads ("" when absent).
Prompt == << "P", ":" >>

SummaryS == << "S", "u", "m" >>

SummaryG == << " ", "G", "e", "n" >>

Body(shape, n, st, gt) == [shape |-> shape, items |-> n, summary_text |-> st, generated_text |-> gt]

NoBody == Body("none", 0, << >>, << >>)

Response(status, body) == [kind |-> "response", code |-> status, body |-> body, msg |-> << >>]

HTTPError(code) == [kind |-> "HTTPError", code |-> code, body |-> NoBody, msg |-> << >>]

TransportError(msg) == [kind |-> "exception", code |-> 0, body |-> NoBody, msg |-> msg]

MsgTimeout == << "t", "i", "m", "e", "d", " ", "o", "u", "t" >>

MsgReset == << "r", "e", "s", "e", "t" >>

MsgBadJson == << "j", "s", "o", "n" >>

\* The 200 branch of call_huggingface_api (lines 224-237).
ClassifyBody(body, file_name) ==
  IF body.shape = "invalid" THEN TxtApiException(MsgBadJson)
  ELSE IF body.shape = "list" /\ body.items > 0
    THEN LET summary == IF body.summary_text # << >>
                          THEN body.summary_text
                          ELSE IF Contains(body.generated_text, Prompt)
                                 THEN strip(RemoveAll(body.generated_text, Prompt))
                                 ELSE body.generated_text
         IN  IF summary # << >>
               THEN format_episode_summary(summary, file_name)
               ELSE TxtModelFailed
    ELSE TxtUnexpectedFormat

\* The branches on response.status other than 200 (lines 238-243).
ClassifyStatus(code) ==
  IF code = 503 THEN TxtModelLoading
  ELSE IF code = 429 THEN TxtRateLimited
  ELSE TxtApiError(code)

\* ClassifyHTTPError without the 429 branch.
ClassifyHTTPErrorNo429(code) ==
  IF code = 503 THEN TxtModelLoading
  ELSE TxtApiError(code)

\* The handler of urllib.error.HTTPError, on e.code (lines 245-251).
ClassifyHTTPError(code) ==
  IF code = 503 THEN TxtModelLoading
  ELSE IF code = 429 THEN TxtRateLimited
  ELSE TxtApiError(code)

\* call_huggingface_api: the string it returns for a transport outcome.
call_huggingface_api(outcome, file_name) ==
  IF outcome.kind = "response"
    THEN IF outcome.code = 200
           THEN ClassifyBody(outcome.body, file_name)
           ELSE ClassifyStatus(outcome.code)
  ELSE IF outcome.kind = "HTTPError"
    THEN ClassifyHTTPError(outcome.code)
  ELSE TxtApiException(outcome.msg)

\* The transport outcomes the provider produces in the pipeline, one for each
\* way process_document's reply can come about: a summary, a retry text, a
\* fatal text with a status code, and a transport exception.
HFOutcomes ==
  { Response(200, Body("list", 1, SummaryS, << >>)),
    HTTPError(503),
    HTTPError(500),
    TransportError(MsgTimeout) }

\* The outcome classes of the summarization call: a formatted summary is a
\* success, the two retry texts are retryable, every other text is fatal.
IsSuccess(text) == text.kind = "episode_summary"

IsRetryable(text) == text \in {TxtModelLoading, TxtRateLimited}

IsFatal(text) == ~IsSuccess(text) /\ ~IsRetryable(text)

\* ------------------------------------------------------ files and updates

\* "[A]" followed by filler, n characters in all (n >= 4).
DialogueLine(n) ==
  [i \in 1..n |-> IF i = 1 THEN "[" ELSE IF i = 2 THEN "A" ELSE IF i = 3 THEN "]"
                  ELSE IF i = n THEN "z" ELSE "x"]

\* The index line and the timing line of an SRT block.
BlockHead(index) ==
  << index, "\n", "0", "0", ":", "0", "1", " ", "-", "-", ">", " ", "0", "0", ":", "0", "2", "\n" >>

\* A file as the two extractors see it: its text when it decodes as UTF-8,
\* its paragraphs when it is a DOCX package.
File(utf8, text, docx, paragraphs) ==
  [utf8 |-> utf8, text |-> text, docx |-> docx, paragraphs |-> paragraphs]

ContentIds == {"empty", "srt_arrow", "srt_99", "srt_100", "srt_long", "docx_ok", "corrupt"}

Content ==
  [c \in ContentIds |->
     CASE c = "empty"     -> File(TRUE, << >>, FALSE, << >>)
       [] c = "srt_arrow" -> File(TRUE, BlockHead("1") \o << "[", "A", "]", " ", "-", "-", ">", " ", "b" >>,
                                  FALSE, << >>)
       [] c = "srt_99"    -> File(TRUE, BlockHead("1") \o DialogueLine(99) \o << "\n" >>, FALSE, << >>)
       [] c = "srt_100"   -> File(TRUE,
                                  BlockHead("1") \o DialogueLine(100) \o << "\n", "\n" >>
                                    \o BlockHead("2") \o << "h", "i", "\n" >>,
                                  FALSE, << >>)
       [] c = "srt_long"  -> File(TRUE, BlockHead("1") \o DialogueLine(max_chars + 1), FALSE, << >>)
       [] c = "docx_ok"   -> File(FALSE, << >>, TRUE,
                                  << DialogueLine(60), << " " >>, << " " >> \o DialogueLine(60) >>)
       [] c = "corrupt"   -> File(FALSE, << >>, FALSE, << >>)]

\* What a path of /tmp holds: nothing, or the bytes last written to it and the
\* task whose download wrote them.
Absent == [present |-> FALSE, data |-> "empty", writer |-> 0]

Held(data, writer) == [present |-> TRUE, data |-> data, writer |-> writer]

TmpDir == << "/", "t", "m", "p", "/" >>

\* file_path = f"/tmp/{file_name}" (line 305)
file_path(file_name) == TmpDir \o file_name

NameSrt == << "a", ".", "s", "r", "t" >>

NameDocx == << "b", ".", "D", "O", "C", "X" >>

NameTxt == << "c", ".", "t", "x", "t" >>

NameUnknown == << "u", "n", "k", "n", "o", "w", "n" >>

FileNames == {NameSrt, NameDocx, NameTxt}

Paths == {file_path(n) : n \in FileNames \cup {NameUnknown}}

FileSizes == {MaxFileSize, MaxFileSize + 1}

ChatId == 7

\* The document object of a message; has_file_name is FALSE when the key is absent.
Document(has_file_name, file_name, file_size) ==
  [present |-> TRUE, has_file_name |-> has_file_name, file_name |-> file_name, file_size |-> file_size]

NoDocument == [present |-> FALSE, has_file_name |-> FALSE, file_name |-> << >>, file_size |-> 0]

Message(message_id, text, document) ==
  [present |-> TRUE, chat_id |-> ChatId, message_id |-> message_id, text |-> text, document |-> document]

NoMessage == [present |-> FALSE, chat_id |-> 0, message_id |-> 0, text |-> << >>, document |-> NoDocument]

Update(message, channel_post) == [message |-> message, channel_post |-> channel_post]

NoUpdate == Update(NoMessage, NoMessage)

Documents ==
  {Document(TRUE, n, sz) : n \in FileNames, sz \in FileSizes} \cup {Document(FALSE, << >>, MaxFileSize)}

CmdStart == << "/", "s", "t", "a", "r", "t" >>

\* The updates Telegram delivers: a document in a message or in a channel
\* post, the /start command, or another text message.
\* message_id is the id Telegram gave the message: here the position of the
\* update among those delivered.
DocumentUpdates(message_id) ==
  {Update(Message(message_id, << >>, d), NoMessage) : d \in Documents}
    \cup {Update(NoMessage, Message(message_id, << >>, Document(TRUE, NameTxt, MaxFileSize)))}

TextUpdates(message_id) ==
  {Update(Message(message_id, CmdStart, NoDocument), NoMessage),
   Update(Message(message_id, << "h", "i" >>, NoDocument), NoMessage)}

\* lines 390-394 of webhook_handler
has_document(update_json) ==
  IF update_json.message.present /\ update_json.message.document.present THEN TRUE
  ELSE IF update_json.channel_post.present /\ update_json.channel_post.document.present THEN TRUE
  ELSE FALSE

\* line 399 of webhook_handler
is_start(update_json) ==
  /\ update_json.message.present
  /\ Len(update_json.message.text) >= Len(CmdStart)
  /\ SubSeq(update_json.message.text, 1, Len(CmdStart)) = CmdStart

\* lines 262-265 of process_document
message_data(update_data) ==
  IF update_data.message.present THEN update_data.message ELSE update_data.channel_post

\* lines 278-279: document.get('file_name', 'unknown'), document.get('file_size', 0)
file_name_of(update_data) ==
  LET document == message_data(update_data).document
  IN  IF document.has_file_name THEN document.file_name ELSE NameUnknown

file_size_of(update_data) == message_data(update_data).document.file_size

\* Lines 316-319 on what the path holds: the extractor chosen by suffix, which
\* raises when the file is missing or is not of the format it reads.
ExtractTable ==
  [c \in ContentIds |->
     [srt  |-> IF Content[c].utf8 THEN extract_text_from_srt(Content[c].text) ELSE << >>,
      docx |-> IF Content[c].docx THEN extract_text_from_docx(Content[c].paragraphs) ELSE << >>]]

ExtractRaises(file_name, held) ==
  \/ ~held.present
  \/ IF endswith(lower(file_name), SuffixDocx)
       THEN ~Content[held.data].docx
       ELSE ~Content[held.data].utf8

raw_text_of(file_name, held) ==
  IF endswith(lower(file_name), SuffixDocx)
    THEN ExtractTable[held.data].docx
    ELSE ExtractTable[held.data].srt

\* line 325 for each extracted text of the catalogue
EpisodeTable ==
  [c \in ContentIds |->
     [srt  |-> prepare_episode_text(ExtractTable[c].srt),
      docx |-> prepare_episode_text(ExtractTable[c].docx)]]

episode_text_of(file_name, held) ==
  IF endswith(lower(file_name), SuffixDocx)
    THEN EpisodeTable[held.data].docx
    ELSE EpisodeTable[held.data].srt

\* ------------------------------------------------------------------- state

VARIABLES
  delivered,  \* number of updates the webhook has handled
  queue,      \* the executor's work queue: submitted tasks no worker has taken
  tasks,      \* per task: the activation of process_document
  tmp,        \* the /tmp directory: what each path holds
  welcomes,   \* number of welcome messages the intake path has sent
  call,       \* the function call under observation: its name and argument
  ret         \* what that call returned

vars == << delivered, queue, tasks, tmp, welcomes, call, ret >>

TaskIds == 1..MaxUpdates

\* One call of process_document to a collaborator (the Telegram API, the
\* provider, the file system), as the task issued it, and whether it succeeded.
Call(method, message_id, text, reply_to, ok) ==
  [method |-> method, message_id |-> message_id, text |-> text, reply_to |-> reply_to, ok |-> ok]

\* The request of send_message (lines 130-138): reply_to_message_id is sent
\* only when it is truthy. 0 stands for None.
send_message(text, reply_to_message_id, ok) ==
  Call("sendMessage", 0, text, IF reply_to_message_id # 0 THEN reply_to_message_id ELSE 0, ok)

\* The request of edit_message (lines 143-150).
edit_message(message_id, text, ok) == Call("editMessageText", message_id, text, 0, ok)

\* The request of delete_message (lines 152-156).
delete_message(message_id, ok) == Call("deleteMessage", message_id, NoText, 0, ok)

TxtDeleted == Text("deleted", << >>)

\* A task no update has created yet, and a task whose worker has moved on:
\* nothing of the program refers to its locals or its messages any more.
BlankTask(pc) ==
  [pc |-> pc, update_data |-> NoUpdate, status_message_id |-> 0, status_shown |-> NoText,
   episode_text |-> << >>, summary |-> NoText, calls |-> << >>]

\* The id Telegram gives the status message of task t.
StatusIdOf(t) == 100 + t

Running == {t \in TaskIds : tasks[t].pc \notin {"none", "queued", "done"}}

\* A call of one of the program's functions, taken by itself: the function,
\* its argument, and whether the argument is what the same function returned
\* before.
FnCall(fn, arg, again) == [fn |-> fn, arg |-> arg, again |-> again]

\* No call is under observation.
NoCall == FnCall("none", << >>, FALSE)

\* The call has not returned yet; the call has returned value.
Pending == [done |-> FALSE, value |-> << >>]

Returns(value) == [done |-> TRUE, value |-> value]

Init ==
  /\ delivered = 0
  /\ queue = << >>
  /\ tasks = [t \in TaskIds |-> BlankTask("none")]
  /\ tmp = [p \in Paths |-> Absent]
  /\ welcomes = 0
  /\ call = NoCall
  /\ ret = Pending

\* ------------------------------------------------------------ webhook_handler

\* lines 396-398: a document update is submitted to the executor.
WebhookDocument ==
  /\ delivered < MaxUpdates
  /\ \E update_json \in DocumentUpdates(delivered + 1) :
       /\ has_document(update_json)
       /\ tasks' = [tasks EXCEPT ![delivered + 1] =
                      [BlankTask("queued") EXCEPT !.update_data = update_json]]
  /\ queue' = Append(queue, delivered + 1)
  /\ delivered' = delivered + 1
  /\ UNCHANGED << tmp, welcomes, call, ret >>

\* lines 399-416: /start is answered in the handler.
WebhookStart ==
  /\ delivered < MaxUpdates
  /\ \E update_json \in TextUpdates(delivered + 1) :
       /\ ~has_document(update_json)
       /\ is_start(update_json)
  /\ welcomes' = welcomes + 1
  /\ delivered' = delivered + 1
  /\ UNCHANGED << queue, tasks, tmp, call, ret >>

\* line 418: any other update is acknowledged and dropped.
WebhookOther ==
  /\ delivered < MaxUpdates
  /\ \E update_json \in TextUpdates(delivered + 1) :
       /\ ~has_document(update_json)
       /\ ~is_start(update_json)
  /\ delivered' = delivered + 1
  /\ UNCHANGED << queue, tasks, tmp, welcomes, call, ret >>

\* ------------------------------------------------------------------ executor

\* A free worker takes the oldest queued task and enters process_document.
WorkerStart ==
  /\ queue # << >>
  /\ Cardinality(Running) < max_workers
  /\ tasks' = [tasks EXCEPT ![Head(queue)].pc = "validate"]
  /\ queue' = Tail(queue)
  /\ UNCHANGED << delivered, tmp, welcomes, call, ret >>

\* process_document has returned: the worker drops the task and is free again.
WorkerFinish(t) ==
  /\ tasks[t].pc = "returned"
  /\ tasks' = [tasks EXCEPT ![t] = BlankTask("done")]
  /\ UNCHANGED << delivered, queue, tmp, welcomes, call, ret >>

\* ---------------------------------------------------------- process_document

FileName(t) == file_name_of(tasks[t].update_data)

FileSize(t) == file_size_of(tasks[t].update_data)

MessageId(t) == message_data(tasks[t].update_data).message_id

Path(t) == file_path(FileName(t))

\* The task at pc issues call c and moves to next.
Step(t, c, next) ==
  [tasks[t] EXCEPT !.pc = next, !.calls = Append(@, c)]

\* lines 285-287
RejectTooLarge(t) ==
  /\ tasks[t].pc = "validate"
  /\ TooLarge(FileSize(t))
  /\ \E ok \in BOOLEAN :
       tasks' = [tasks EXCEPT ![t] = Step(t, send_message(TxtTooLarge, 0, ok), "returned")]
  /\ UNCHANGED << delivered, queue, tmp, welcomes, call, ret >>

\* lines 290-296
RejectUnsupported(t) ==
  /\ tasks[t].pc = "validate"
  /\ ~TooLarge(FileSize(t))
  /\ ~SupportedName(FileName(t))
  /\ \E ok \in BOOLEAN :
       tasks' = [tasks EXCEPT ![t] = Step(t, send_message(TxtUnsupported, 0, ok), "returned")]
  /\ UNCHANGED << delivered, queue, tmp, welcomes, call, ret >>

\* What follows a failed status message (lines 300-302): the task returns.
AfterStatusFailure == "returned"

\* SendStatus with the status message posted before the file is validated.
SendStatusUnvalidated(t) ==
  /\ tasks[t].pc = "validate"
  /\ \E ok \in BOOLEAN :
       tasks' = [tasks EXCEPT ![t] =
                   IF ok
                     THEN [Step(t, send_message(TxtAnalyzing, 0, TRUE), "download")
                             EXCEPT !.status_message_id = StatusIdOf(t),
                                    !.status_shown = TxtAnalyzing]
                     ELSE Step(t, send_message(TxtAnalyzing, 0, FALSE), AfterStatusFailure)]
  /\ UNCHANGED << delivered, queue, tmp, welcomes, call, ret >>

\* lines 299-303
SendStatus(t) ==
  /\ tasks[t].pc = "validate"
  /\ ~TooLarge(FileSize(t))
  /\ SupportedName(FileName(t))
  /\ \E ok \in BOOLEAN :
       tasks' = [tasks EXCEPT ![t] =
                   IF ok
                     THEN [Step(t, send_message(TxtAnalyzing, 0, TRUE), "download")
                             EXCEPT !.status_message_id = StatusIdOf(t),
                                    !.status_shown = TxtAnalyzing]
                     ELSE Step(t, send_message(TxtAnalyzing, 0, FALSE), AfterStatusFailure)]
  /\ UNCHANGED << delivered, queue, tmp, welcomes, call, ret >>

\* line 310 with download_file returning True: the path holds the uploaded
\* bytes, whatever it held before (open(file_path, 'wb') truncates). The open
\* and the write are taken as one step.
DownloadOk(t) ==
  /\ tasks[t].pc = "download"
  /\ \E c \in ContentIds : tmp' = [tmp EXCEPT ![Path(t)] = Held(c, t)]
  /\ tasks' = [tasks EXCEPT ![t] = Step(t, Call("download_file", 0, NoText, 0, TRUE), "extract")]
  /\ UNCHANGED << delivered, queue, welcomes, call, ret >>

\* line 310 with download_file returning False: before the file was opened, or
\* after open(file_path, 'wb') left it empty.
DownloadFailed(t) ==
  /\ tasks[t].pc = "download"
  /\ \E opened \in BOOLEAN :
       tmp' = IF opened THEN [tmp EXCEPT ![Path(t)] = Held("empty", t)] ELSE tmp
  /\ tasks' = [tasks EXCEPT ![t] =
                 Step(t, Call("download_file", 0, NoText, 0, FALSE), "edit_download_failed")]
  /\ UNCHANGED << delivered, queue, welcomes, call, ret >>

\* An edit of the status message: the chat shows the text when the call succeeds.
Edit(t, text, ok, next) ==
  [Step(t, edit_message(tasks[t].status_message_id, text, ok), next)
     EXCEPT !.status_shown = IF ok THEN text ELSE @]

\* line 311
EditDownloadFailed(t) ==
  /\ tasks[t].pc = "edit_download_failed"
  /\ \E ok \in BOOLEAN :
       tasks' = [tasks EXCEPT ![t] = Edit(t, TxtDownloadFailed, ok, "finally")]
  /\ UNCHANGED << delivered, queue, tmp, welcomes, call, ret >>

\* Insufficient with the length floor left out.
InsufficientOnlyWhenEmpty(episode_text) == episode_text = << >>

\* The floor of line 327 on the excerpt.
Insufficient(episode_text) == episode_text = << >> \/ Len(episode_text) < MinEpisodeChars

\* lines 316-329: extraction and windowing, up to the call that follows.
Extract(t) ==
  /\ tasks[t].pc = "extract"
  /\ LET held == tmp[Path(t)]
     IN  tasks' = [tasks EXCEPT ![t] =
           IF ExtractRaises(FileName(t), held)
             THEN [@ EXCEPT !.pc = "except"]
           ELSE IF strip(raw_text_of(FileName(t), held)) = << >>
             THEN [@ EXCEPT !.pc = "edit_no_dialogue"]
           ELSE IF Insufficient(episode_text_of(FileName(t), held))
             THEN [@ EXCEPT !.pc = "edit_insufficient",
                            !.episode_text = episode_text_of(FileName(t), held)]
           ELSE [@ EXCEPT !.pc = "edit_generating",
                          !.episode_text = episode_text_of(FileName(t), held)]]
  /\ UNCHANGED << delivered, queue, tmp, welcomes, call, ret >>

\* line 322
EditNoDialogue(t) ==
  /\ tasks[t].pc = "edit_no_dialogue"
  /\ \E ok \in BOOLEAN :
       tasks' = [tasks EXCEPT ![t] = Edit(t, TxtNoDialogue, ok, "finally")]
  /\ UNCHANGED << delivered, queue, tmp, welcomes, call, ret >>

\* line 328
EditInsufficient(t) ==
  /\ tasks[t].pc = "edit_insufficient"
  /\ \E ok \in BOOLEAN :
       tasks' = [tasks EXCEPT ![t] = Edit(t, TxtInsufficient, ok, "finally")]
  /\ UNCHANGED << delivered, queue, tmp, welcomes, call, ret >>

\* line 331
EditGenerating(t) ==
  /\ tasks[t].pc = "edit_generating"
  /\ \E ok \in BOOLEAN :
       tasks' = [tasks EXCEPT ![t] = Edit(t, TxtGenerating, ok, "summarize")]
  /\ UNCHANGED << delivered, queue, tmp, welcomes, call, ret >>

\* str(e) of the exception the extractor raised.
MsgNoFile == << "n", "o", " ", "f", "i", "l", "e" >>

\* EditException with the handler only logging: no edit of the status message.
EditExceptionLogOnly(t) ==
  /\ tasks[t].pc = "except"
  /\ tasks' = [tasks EXCEPT ![t].pc = "finally"]
  /\ UNCHANGED << delivered, queue, tmp, welcomes, call, ret >>

\* lines 345-352
EditException(t) ==
  /\ tasks[t].pc = "except"
  /\ \E ok \in BOOLEAN :
       tasks' = [tasks EXCEPT ![t] = Edit(t, TxtProcessingError(MsgNoFile), ok, "finally")]
  /\ UNCHANGED << delivered, queue, tmp, welcomes, call, ret >>

\* line 335. The excerpt is passed to the provider and never read again: the
\* task keeps no copy of it past the call.
Summarize(t) ==
  /\ tasks[t].pc = "summarize"
  /\ \E outcome \in HFOutcomes :
       tasks' = [tasks EXCEPT ![t] =
                   [Step(t, Call("call_huggingface_api", 0, NoText, 0, TRUE), "deliver")
                      EXCEPT !.summary = call_huggingface_api(outcome, FileName(t)),
                             !.episode_text = << >>]]
  /\ UNCHANGED << delivered, queue, tmp, welcomes, call, ret >>

\* line 338
DeleteStatus(t) ==
  /\ tasks[t].pc = "deliver"
  /\ \E ok \in BOOLEAN :
       tasks' = [tasks EXCEPT ![t] =
                   [Step(t, delete_message(tasks[t].status_message_id, ok), "reply")
                      EXCEPT !.status_shown = IF ok THEN TxtDeleted ELSE @]]
  /\ UNCHANGED << delivered, queue, tmp, welcomes, call, ret >>

\* Reply with the reply addressed to the message of the latest update.
ReplyToLatestUpdate(t) ==
  /\ tasks[t].pc = "reply"
  /\ \E ok \in BOOLEAN :
       tasks' = [tasks EXCEPT ![t] =
                   Step(t, send_message(tasks[t].summary, delivered, ok), "finally")]
  /\ UNCHANGED << delivered, queue, tmp, welcomes, call, ret >>

\* line 341
Reply(t) ==
  /\ tasks[t].pc = "reply"
  /\ \E ok \in BOOLEAN :
       tasks' = [tasks EXCEPT ![t] =
                   Step(t, send_message(tasks[t].summary, MessageId(t), ok), "finally")]
  /\ UNCHANGED << delivered, queue, tmp, welcomes, call, ret >>

\* line 355: os.path.exists(file_path)
FinallyExists(t) ==
  /\ tasks[t].pc = "finally"
  /\ tasks' = [tasks EXCEPT ![t].pc = IF tmp[Path(t)].present THEN "remove" ELSE "returned"]
  /\ UNCHANGED << delivered, queue, tmp, welcomes, call, ret >>

\* lines 356-360: os.remove(file_path), whose failure is logged; it fails when
\* another task has removed the file since line 355.
Remove(t) ==
  /\ tasks[t].pc = "remove"
  /\ \E removed \in (IF tmp[Path(t)].present THEN BOOLEAN ELSE {FALSE}) :
       /\ tmp' = IF removed THEN [tmp EXCEPT ![Path(t)] = Absent] ELSE tmp
       /\ tasks' = [tasks EXCEPT ![t] = Step(t, Call("os.remove", 0, NoText, 0, removed), "returned")]
  /\ UNCHANGED << delivered, queue, welcomes, call, ret >>

Next ==
  \/ WebhookDocument
  \/ WebhookStart
  \/ WebhookOther
  \/ WorkerStart
  \/ \E t \in TaskIds :
       \/ WorkerFinish(t)
       \/ RejectTooLarge(t)
       \/ RejectUnsupported(t)
       \/ SendStatus(t)
       \/ DownloadOk(t)
       \/ DownloadFailed(t)
       \/ EditDownloadFailed(t)
       \/ Extract(t)
       \/ EditNoDialogue(t)
       \/ EditInsufficient(t)
       \/ EditGenerating(t)
       \/ EditException(t)
       \/ Summarize(t)
       \/ DeleteStatus(t)
       \/ Reply(t)
       \/ FinallyExists(t)
       \/ Remove(t)

Spec == Init /\ [][Next]_vars

\* ------------------------------------------- the functions taken by themselves

\* How far past max_chars the lengths of the joined texts go, one by one.
MaxOver == 9

NL == << "\n" >>

\* The digit that fills position i of a text.
DigitAt(i) == str(i % 10)[1]

\* A line of n characters (n >= 4): "[A]", then the digit of each position.
Speech(n) ==
  [i \in 1..n |-> IF i = 1 THEN "[" ELSE IF i = 2 THEN "A" ELSE IF i = 3 THEN "]"
                  ELSE DigitAt(i)]

\* A line of n digits with "[A]" written over positions at, at + 1, at + 2.
MidTag(n, at) ==
  [i \in 1..n |-> IF i = at THEN "[" ELSE IF i = at + 1 THEN "A" ELSE IF i = at + 2 THEN "]"
                  ELSE DigitAt(i)]

LineA == << "[", "A", "]", " ", "h", "i" >>

LineB == << "[", "B", "]", " ", "y", "o" >>

LinePlain == << "h", "e", "y" >>

LineArrow == << "[", "A", "]", " ", "-", "-", ">", " ", "b" >>

\* The texts prepare_episode_text is applied to: one line or several, with and
\* without brackets, around the floor of 100 characters, around the head of
\* three quarters and around max_chars, and beyond it.
PrepareInputs ==
  LET quarter == max_chars \div 4
  IN  {Speech(n) : n \in {4, 99, 100, quarter * 3, quarter * 3 + 1, max_chars - 1, max_chars}}
        \cup {Speech(max_chars + k) : k \in 1..MaxOver}
        \cup {Speech(max_chars + quarter + 3), MidTag(max_chars + 100, quarter * 3 + 50)}
        \cup {Speech(a) \o NL \o Speech(max_chars - 1 - a + k) : a \in {1500}, k \in 0..1}
        \cup {Speech(2000) \o NL \o LinePlain \o NL \o Speech(2000)}
        \cup { << >>, LinePlain, << "1", "2", "3" >>, LineArrow,
               << " " >> \o Speech(50) \o << " ", "\n" >>,
               LineA \o NL \o LineB,
               LineA \o NL \o << "0", "0", ":", "0", "1" >> \o NL \o LineArrow \o NL \o LineB }

\* The contents extract_text_from_srt is applied to.
SrtInputs ==
  { << >>,
    BlockHead("1"),
    BlockHead("1") \o LineA,
    BlockHead("1") \o LineArrow,
    BlockHead("1") \o LinePlain,
    BlockHead("1") \o << "[", "A", " ", "h", "i" >>,
    BlockHead("1") \o LineA \o NL \o NL \o BlockHead("2") \o LineB \o NL \o LinePlain \o NL \o LineA,
    BlockHead("1") \o LineA \o NL \o NL \o NL \o BlockHead("2") \o LineB,
    BlockHead("1") \o LineA \o NL \o << " " >> \o NL \o BlockHead("2") \o LineB,
    NL \o NL \o BlockHead("1") \o << " ", " " >> \o LineA \o << " ", "\n", "\n" >>,
    LineA \o NL \o LineB \o NL \o LinePlain,
    LineA \o NL \o LineB \o NL \o LineA,
    << "[", "1", "]", "\n", "[", "t", "]", " ", "-", "-", ">", "\n" >> \o LineA,
    << "1", "\r", "\n", "0", "0", ":", "0", "1", "\r", "\n" >> \o LineA
      \o << "\r", "\n", "\r", "\n", "2", "\r", "\n", "0", "0", ":", "0", "2", "\r", "\n" >> \o LineB }

\* The status codes of the provider's answers, 200 aside.
StatusCodes == {201, 204, 304} \cup (400..430) \cup (500..504)

\* The bodies of a 200 answer.
Bodies ==
  { Body("invalid", 0, << >>, << >>),
    Body("dict", 0, << >>, << >>),
    Body("list", 0, << >>, << >>),
    Body("list", 1, SummaryS, << >>),
    Body("list", 1, << >>, SummaryG),
    Body("list", 1, << >>, Prompt \o SummaryG),
    Body("list", 1, << >>, Prompt \o << " " >>),
    Body("list", 1, << >>, << >>) }

\* What urlopen does in the calls of call_huggingface_api taken by themselves.
HFInputs ==
  {Response(code, NoBody) : code \in StatusCodes}
    \cup {HTTPError(code) : code \in StatusCodes}
    \cup {Response(200, body) : body \in Bodies}
    \cup {TransportError(msg) : msg \in {MsgTimeout, MsgReset}}

\* No update has arrived and the pool is idle; one call is about to be made.
FunctionsInit ==
  /\ delivered = 0
  /\ queue = << >>
  /\ tasks = [t \in TaskIds |-> BlankTask("none")]
  /\ tmp = [p \in Paths |-> Absent]
  /\ welcomes = 0
  /\ \/ \E text \in PrepareInputs : call = FnCall("prepare_episode_text", text, FALSE)
     \/ \E content \in SrtInputs : call = FnCall("extract_text_from_srt", content, FALSE)
     \/ \E outcome \in HFInputs : call = FnCall("call_huggingface_api", outcome, FALSE)
  /\ ret = Pending

\* prepare_episode_text(text) returns (lines 45-62).
ApplyPrepare ==
  /\ call.fn = "prepare_episode_text"
  /\ ~ret.done
  /\ ret' = Returns(prepare_episode_text(call.arg))
  /\ UNCHANGED << delivered, queue, tasks, tmp, welcomes, call >>

\* prepare_episode_text is applied to the text it returned.
ApplyPrepareAgain ==
  /\ call.fn = "prepare_episode_text"
  /\ ret.done
  /\ ~call.again
  /\ call' = FnCall("prepare_episode_text", ret.value, TRUE)
  /\ ret' = Returns(prepare_episode_text(ret.value))
  /\ UNCHANGED << delivered, queue, tasks, tmp, welcomes >>

\* extract_text_from_srt returns for a file with this content (lines 89-108).
ApplyExtractSrt ==
  /\ call.fn = "extract_text_from_srt"
  /\ ~ret.done
  /\ ret' = Returns(extract_text_from_srt(call.arg))
  /\ UNCHANGED << delivered, queue, tasks, tmp, welcomes, call >>

\* call_huggingface_api returns for this outcome of urlopen (lines 222-254).
ApplyHuggingFace ==
  /\ call.fn = "call_huggingface_api"
  /\ ~ret.done
  /\ ret' = Returns(call_huggingface_api(call.arg, NameSrt))
  /\ UNCHANGED << delivered, queue, tasks, tmp, welcomes, call >>

FunctionsNext ==
  \/ ApplyPrepare
  \/ ApplyPrepareAgain
  \/ ApplyExtractSrt
  \/ ApplyHuggingFace

FunctionsSpec == FunctionsInit /\ [][FunctionsNext]_vars

\* --------------------------------------------- the executor and its workers

\* The pool with more documents than workers. process_document is taken as
\* its flow of control: each step below is one stretch of it between two
\* collaborator calls, and goes wherever that stretch can go, whatever the
\* collaborators answer.

\* Updates delivered to the webhook in a run of the pool.
PoolUpdates == 4

PoolTaskIds == 1..PoolUpdates

PoolDocument == Document(TRUE, NameSrt, MaxFileSize)

\* The updates delivered: a document in a message, a document in a channel
\* post, the /start command, another text.
PoolUpdatesOf(message_id) ==
  { Update(Message(message_id, << >>, PoolDocument), NoMessage),
    Update(NoMessage, Message(message_id, << >>, PoolDocument)),
    Update(Message(message_id, CmdStart, NoDocument), NoMessage),
    Update(Message(message_id, << "h", "i" >>, NoDocument), NoMessage) }

\* return "ok" (line 418)
Ok == << "o", "k" >>

\* The tasks a worker thread is bound to: inside process_document, or back
\* from it and not yet at the queue again.
PoolRunning == {t \in PoolTaskIds : tasks[t].pc \notin {"none", "queued", "done"}}

PoolInit ==
  /\ delivered = 0
  /\ queue = << >>
  /\ tasks = [t \in PoolTaskIds |-> BlankTask("none")]
  /\ tmp = [p \in Paths |-> Absent]
  /\ welcomes = 0
  /\ call = NoCall
  /\ ret = Pending

\* executor.submit only when a worker is free.
SubmitWhenWorkerFree(update_json) ==
  /\ Cardinality(PoolRunning) < max_workers
  /\ tasks' = [tasks EXCEPT ![delivered + 1] =
                 [BlankTask("queued") EXCEPT !.update_data = update_json]]
  /\ queue' = Append(queue, delivered + 1)

\* executor.submit(process_document, update_json) (line 398): the work item
\* goes to the executor's queue, which has no bound, and submit returns.
Submit(update_json) ==
  /\ tasks' = [tasks EXCEPT ![delivered + 1] =
                 [BlankTask("queued") EXCEPT !.update_data = update_json]]
  /\ queue' = Append(queue, delivered + 1)

\* webhook_handler (lines 383-418) on one update, from the request to
\* return "ok".
webhook_handler(update_json) ==
  /\ call' = FnCall("webhook_handler", update_json, FALSE)
  /\ IF has_document(update_json)
       THEN Submit(update_json) /\ welcomes' = welcomes
       ELSE IF is_start(update_json)
         THEN welcomes' = welcomes + 1 /\ UNCHANGED << queue, tasks >>
         ELSE UNCHANGED << queue, tasks, welcomes >>
  /\ ret' = Returns(Ok)
  /\ delivered' = delivered + 1
  /\ UNCHANGED tmp

\* Telegram delivers the next update.
PoolWebhook ==
  /\ delivered < PoolUpdates
  /\ \E update_json \in PoolUpdatesOf(delivered + 1) : webhook_handler(update_json)

\* A worker takes the next work item whatever the number of tasks running.
PoolWorkerStartUnbounded ==
  /\ queue # << >>
  /\ tasks' = [tasks EXCEPT ![Head(queue)].pc = "validate"]
  /\ queue' = Tail(queue)
  /\ UNCHANGED << delivered, tmp, welcomes, call, ret >>

\* One of the max_workers threads (line 43) is free: it takes the oldest work
\* item and enters process_document.
PoolWorkerStart ==
  /\ queue # << >>
  /\ Cardinality(PoolRunning) < max_workers
  /\ tasks' = [tasks EXCEPT ![Head(queue)].pc = "validate"]
  /\ queue' = Tail(queue)
  /\ UNCHANGED << delivered, tmp, welcomes, call, ret >>

\* The thread keeps the finished task: it never goes back to the queue.
PoolWorkerKeepsTask(t) ==
  /\ tasks[t].pc = "returned"
  /\ tasks' = [tasks EXCEPT ![t].pc = "returned"]
  /\ UNCHANGED << delivered, queue, tmp, welcomes, call, ret >>

\* process_document has returned: the thread is free for the next work item.
PoolWorkerFinish(t) ==
  /\ tasks[t].pc = "returned"
  /\ tasks' = [tasks EXCEPT ![t] = BlankTask("done")]
  /\ UNCHANGED << delivered, queue, tmp, welcomes, call, ret >>

\* lines 258-303: a rejection or a failed status message returns, the outer
\* handler (lines 362-363) logs and returns; otherwise the download is next.
PoolValidate(t) ==
  /\ tasks[t].pc = "validate"
  /\ \E next \in {"returned", "download"} : tasks' = [tasks EXCEPT ![t].pc = next]
  /\ UNCHANGED << delivered, queue, tmp, welcomes, call, ret >>

\* lines 305-312: a failed download edits the status message and leaves
\* through the finally block.
PoolDownload(t) ==
  /\ tasks[t].pc = "download"
  /\ \E next \in {"finally", "extract"} : tasks' = [tasks EXCEPT ![t].pc = next]
  /\ UNCHANGED << delivered, queue, tmp, welcomes, call, ret >>

\* lines 314-331: no dialogue, too little of it, or an exception handled at
\* lines 345-352 leave through the finally block.
PoolExtract(t) ==
  /\ tasks[t].pc = "extract"
  /\ \E next \in {"finally", "summarize"} : tasks' = [tasks EXCEPT ![t].pc = next]
  /\ UNCHANGED << delivered, queue, tmp, welcomes, call, ret >>

\* lines 335-343: call_huggingface_api returns a string, at the latest when
\* its urlopen times out after 30 seconds; the status message is deleted and
\* the reply sent.
PoolSummarize(t) ==
  /\ tasks[t].pc = "summarize"
  /\ tasks' = [tasks EXCEPT ![t].pc = "finally"]
  /\ UNCHANGED << delivered, queue, tmp, welcomes, call, ret >>

\* lines 353-360
PoolFinally(t) ==
  /\ tasks[t].pc = "finally"
  /\ tasks' = [tasks EXCEPT ![t].pc = "returned"]
  /\ UNCHANGED << delivered, queue, tmp, welcomes, call, ret >>

\* The steps of process_document for task t.
PoolProcess(t) ==
  \/ PoolValidate(t)
  \/ PoolDownload(t)
  \/ PoolExtract(t)
  \/ PoolSummarize(t)
  \/ PoolFinally(t)

PoolNext ==
  \/ PoolWebhook
  \/ PoolWorkerStart
  \/ \E t \in PoolTaskIds :
       \/ PoolWorkerFinish(t)
       \/ PoolProcess(t)

PoolSpec == PoolInit /\ [][PoolNext]_vars

\* The threads of the pool are scheduled fairly and every call a task makes
\* returns: a worker that can take a work item takes one, a task inside
\* process_document takes its next step, a thread back from it goes on.
PoolFairness ==
  /\ WF_vars(PoolWorkerStart)
  /\ \A t \in PoolTaskIds : WF_vars(PoolProcess(t) \/ PoolWorkerFinish(t))

PoolLiveSpec == PoolSpec /\ PoolFairness

\* ------------------------------------------------------------- properties

Returned(t) == tasks[t].pc = "returned"

\* The validation of the declared size and name, written out.
SizeAllowed(t) == FileSize(t) <= 20 * 1024 * 1024

NameAllowed(t) ==
  LET n == lower(FileName(t))
  IN  \/ Len(n) >= 5 /\ SubSeq(n, Len(n) - 4, Len(n)) = << ".", "d", "o", "c", "x" >>
      \/ Len(n) >= 4 /\ SubSeq(n, Len(n) - 3, Len(n)) = << ".", "s", "r", "t" >>

\* The positions in the log of task t of the calls that satisfy Is.
CallsWhere(t, Is(_)) == {i \in 1..Len(tasks[t].calls) : Is(tasks[t].calls[i])}

IsStatusCall(c) == c.method \in {"editMessageText", "deleteMessage"}

IsDelete(c) == c.method = "deleteMessage"

IsErrorEdit(c) == c.method = "editMessageText" /\ c.text \notin InProgressTexts

IsUserSend(c) == c.method = "sendMessage" /\ c.text # TxtAnalyzing

IsReply(c) == c.method = "sendMessage" /\ c.reply_to # 0

IsProviderCall(c) == c.method = "call_huggingface_api"

IsDownload(c) == c.method = "download_file"

Last(S) == CHOOSE i \in S : \A j \in S : j <= i

\* C1: once process_document has returned for a task that passed validation,
\* /tmp/<file_name> does not exist.
C1_TempFileGoneOnReturn ==
  \A t \in TaskIds :
    (Returned(t) /\ SizeAllowed(t) /\ NameAllowed(t)) => ~tmp[Path(t)].present

C3_ExactlyOneTerminalMessage ==
  \A t \in TaskIds :
    Returned(t) =>
      LET deletes == CallsWhere(t, IsDelete)
          edits   == CallsWhere(t, IsErrorEdit)
          sends   == CallsWhere(t, IsUserSend)
      IN  \/ /\ Cardinality(deletes) = 1
             /\ Cardinality(sends) = 1
             /\ edits = {}
             /\ \A i \in sends : IsSuccess(tasks[t].calls[i].text)
          \/ /\ deletes = {}
             /\ sends = {}
             /\ Cardinality(edits) = 1
          \/ /\ deletes = {}
             /\ edits = {}
             /\ Cardinality(sends) = 1
             /\ \A i \in sends : tasks[t].calls[i].text \in {TxtTooLarge, TxtUnsupported}

\* C4: when the summarization call ends Retryable or Fatal, the task edits
\* its status message to that error text, does not delete the status message
\* and sends no reply.
C4_ProviderErrorEditsInPlace ==
  \A t \in TaskIds :
    (Returned(t) /\ (IsRetryable(tasks[t].summary) \/ IsFatal(tasks[t].summary))
       /\ tasks[t].summary # NoText) =>
      /\ \E i \in CallsWhere(t, IsErrorEdit) : tasks[t].calls[i].text = tasks[t].summary
      /\ CallsWhere(t, IsDelete) = {}
      /\ CallsWhere(t, IsReply) = {}

\* Two tasks have each sent their reply and neither worker has moved on.
C5_Witness ==
  \E t1, t2 \in TaskIds :
    /\ t1 # t2
    /\ CallsWhere(t1, IsReply) # {}
    /\ CallsWhere(t2, IsReply) # {}
    /\ IsSuccess(tasks[t1].summary)

\* C5: a reply is sent right after the delete of the task's status message and
\* references the message that carried the task's file; a task whose
\* summarization succeeded has sent that reply by the time it cleans up.
C5_DeleteThenReplyToOwnMessage ==
  \A t \in TaskIds :
    /\ \A i \in CallsWhere(t, IsReply) :
         /\ tasks[t].calls[i].reply_to = MessageId(t)
         /\ tasks[t].calls[i].text = tasks[t].summary
         /\ i > 1
         /\ IsDelete(tasks[t].calls[i - 1])
         /\ tasks[t].calls[i - 1].message_id = tasks[t].status_message_id
    /\ (IsSuccess(tasks[t].summary) /\ tasks[t].pc \in {"finally", "remove", "returned"}) =>
         Cardinality(CallsWhere(t, IsReply)) = 1

\* A task rejected for its suffix alone has returned.
C6_Witness ==
  \E t \in TaskIds : Returned(t) /\ SizeAllowed(t) /\ ~NameAllowed(t)

\* C6: a task whose size exceeds 20 MiB or whose name has no supported suffix
\* makes one call, the rejection message, and nothing else: no status
\* message, no download, no file written, no provider call.
C6_RejectedLeavesNoTrace ==
  \A t \in TaskIds :
    (tasks[t].pc \notin {"none", "queued", "done"} /\ (~SizeAllowed(t) \/ ~NameAllowed(t))) =>
      /\ tasks[t].pc \in {"validate", "returned"}
      /\ tasks[t].status_message_id = 0
      /\ tasks[t].summary = NoText
      /\ \A p \in Paths : tmp[p].writer # t
      /\ IF Returned(t)
           THEN /\ Len(tasks[t].calls) = 1
                /\ tasks[t].calls[1].method = "sendMessage"
                /\ tasks[t].calls[1].text \in {TxtTooLarge, TxtUnsupported}
           ELSE tasks[t].calls = << >>

\* A task whose file is too large and has an unsupported suffix has returned.
C7_Witness ==
  \E t \in TaskIds : Returned(t) /\ ~SizeAllowed(t) /\ ~NameAllowed(t)

\* C7: a file over 20 MiB gets the "too large" message and no other message,
\* whatever its name; a file of exactly 20 MiB never gets that message.
C7_TooLargeMessageOnly ==
  \A t \in TaskIds :
    Returned(t) =>
      /\ FileSize(t) > 20 * 1024 * 1024 =>
           /\ Len(tasks[t].calls) = 1
           /\ tasks[t].calls[1].method = "sendMessage"
           /\ tasks[t].calls[1].text = TxtTooLarge
      /\ FileSize(t) = 20 * 1024 * 1024 =>
           \A i \in 1..Len(tasks[t].calls) : tasks[t].calls[i].text # TxtTooLarge

ProviderCalls(task) ==
  Cardinality({i \in 1..Len(task.calls) : IsProviderCall(task.calls[i])})

\* A task has called the provider with an excerpt.
C8_Witness ==
  \E t \in TaskIds : tasks[t].pc = "deliver" /\ ProviderCalls(tasks[t]) = 1

\* C8: the provider is called only with a non-empty excerpt of at least 100
\* characters; a task that leaves extraction with an empty text or a shorter
\* excerpt goes on to an error edit of its status message and then to cleanup,
\* without a provider call.
C8_ProviderOnlyOnSufficientExcerpt ==
  [][\A t \in TaskIds :
       /\ ProviderCalls(tasks'[t]) > ProviderCalls(tasks[t]) =>
            /\ tasks[t].episode_text # << >>
            /\ Len(tasks[t].episode_text) >= 100
       /\ (tasks[t].pc = "extract" /\ tasks'[t].pc \notin {"extract", "except"}
             /\ Len(tasks'[t].episode_text) < 100) =>
            tasks'[t].pc \in {"edit_no_dialogue", "edit_insufficient"}
       /\ (tasks[t].pc \in {"edit_no_dialogue", "edit_insufficient"} /\ tasks'[t] # tasks[t]) =>
            /\ tasks'[t].pc = "finally"
            /\ tasks'[t].calls = Append(tasks[t].calls, tasks'[t].calls[Len(tasks'[t].calls)])
            /\ IsErrorEdit(tasks'[t].calls[Len(tasks'[t].calls)])
            /\ ProviderCalls(tasks'[t]) = 0
    ]_vars

\* C9: a task whose status message could not be posted still goes on to
\* download the file.
C9_ContinuesWithoutStatus ==
  \A t \in TaskIds :
    (Returned(t) /\ Len(tasks[t].calls) >= 1 /\ tasks[t].calls[1].text = TxtAnalyzing
       /\ ~tasks[t].calls[1].ok) =>
      CallsWhere(t, IsDownload) # {}

IsRemove(c) == c.method = "os.remove"

\* C10: from a task's successful download until its own cleanup, its path
\* holds the file it downloaded: no other task overwrites or removes it.
C10_TempFileNotShared ==
  \A t \in TaskIds :
    (/\ tasks[t].pc \notin {"none", "queued", "done", "returned"}
     /\ \E i \in CallsWhere(t, IsDownload) : tasks[t].calls[i].ok
     /\ CallsWhere(t, IsRemove) = {}) =>
      /\ tmp[Path(t)].present
      /\ tmp[Path(t)].writer = t

\* C14: when the summarization request times out, call_huggingface_api
\* returns a retry-later text of the retryable kind, not the text that carries
\* the transport exception's message.
C14_TimeoutIsRetryable ==
  (call.fn = "call_huggingface_api" /\ ret.done /\ call.arg = TransportError(MsgTimeout)) =>
    /\ IsRetryable(ret.value)
    /\ ret.value # Text("api_exception", call.arg.msg)

\* C16: the excerpt a task passes to the summarization call has at most
\* 3000 characters.
C16_ExcerptWithinBudget ==
  \A t \in TaskIds :
    tasks[t].pc \in {"edit_generating", "summarize"} => Len(tasks[t].episode_text) <= 3000

\* The text prepare_episode_text joins from the kept lines of its argument.
JoinedOf(text) == join(CleanedLines(text), << " " >>)

\* A joined text longer than max_chars + 3, of several lines, has been windowed.
C17_Witness ==
  /\ call.fn = "prepare_episode_text"
  /\ ret.done
  /\ ~call.again
  /\ Len(JoinedOf(call.arg)) > 3003
  /\ JoinedOf(call.arg) # call.arg
  /\ Len(ret.value) = 3003

\* C17: for a joined text of more than max_chars characters the result is its
\* first 3 * (max_chars \div 4) characters, then "...", then its last
\* max_chars \div 4 characters; it has at most max_chars + 3 characters.
C17_WindowKeepsHeadMarkerTail ==
  (call.fn = "prepare_episode_text" /\ ret.done) =>
    LET joined == JoinedOf(call.arg)
        n      == Len(joined)
        out    == ret.value
    IN  n > 3000 =>
          /\ Len(out) = 2250 + 3 + 750
          /\ \A i \in 1..2250 : out[i] = joined[i]
          /\ \A i \in 1..3 : out[2250 + i] = "."
          /\ \A i \in 1..750 : out[2253 + i] = joined[n - 750 + i]
          /\ Len(out) <= 3000 + 3

\* C18: prepare_episode_text returns unchanged every text of at most
\* max_chars characters and every text it returned itself.
C18_PrepareIdempotent ==
  (call.fn = "prepare_episode_text" /\ ret.done /\ (Len(call.arg) <= 3000 \/ call.again)) =>
    ret.value = call.arg

\* One line of dialogue as prepare_episode_text joins it: no line break, no
\* white space at either end, both brackets, no "-->".
IsJoinedDialogue(s) ==
  /\ Len(s) > 0
  /\ \A i \in 1..Len(s) : s[i] # "\n"
  /\ s[1] \notin {" ", "\n", "\t", "\r"}
  /\ s[Len(s)] \notin {" ", "\n", "\t", "\r"}
  /\ \E i \in 1..Len(s) : s[i] = "["
  /\ \E i \in 1..Len(s) : s[i] = "]"
  /\ \A i \in 1..(Len(s) - 2) : << s[i], s[i + 1], s[i + 2] >> # << "-", "-", ">" >>

\* A windowed text of max_chars + 3 characters has been given back to
\* prepare_episode_text, which returned it unchanged.
C18_Witness ==
  /\ call.fn = "prepare_episode_text"
  /\ ret.done
  /\ call.again
  /\ Len(call.arg) = 3003
  /\ IsJoinedDialogue(call.arg)
  /\ ret.value = call.arg

\* C18 as amended: prepare_episode_text returns unchanged every single line
\* of dialogue (no line break, no white space at either end, both brackets,
\* no "-->") that has at most max_chars characters or that it returned itself.
C18_PrepareFixesJoinedDialogue ==
  (call.fn = "prepare_episode_text" /\ ret.done /\ IsJoinedDialogue(call.arg)
     /\ (Len(call.arg) <= 3000 \/ call.again)) =>
    ret.value = call.arg

\* The lines of a text joined with line breaks: none for the empty text.
LinesOf(text) == IF text = << >> THEN << >> ELSE split(text, NL)

\* C19: the output of extract_text_from_srt is, in order, the lines at the
\* third position or later of a block of at least three lines that carry
\* both brackets; no line of the output contains "-->".
C19_SrtKeepsOnlyDialogue ==
  (call.fn = "extract_text_from_srt" /\ ret.done) =>
    LET blocks   == split(strip(call.arg), << "\n", "\n" >>)
        LinesIn(b) == split(strip(blocks[b]), NL)
        Line(p)  == strip(LinesIn(p[1])[p[2]])
        Tagged(line) == (\E i \in 1..Len(line) : line[i] = "[") /\ (\E i \in 1..Len(line) : line[i] = "]")
        kept     == {p \in (1..Len(blocks)) \X (1..Len(call.arg)) :
                       /\ Len(LinesIn(p[1])) >= 3
                       /\ p[2] >= 3
                       /\ p[2] <= Len(LinesIn(p[1]))
                       /\ Tagged(Line(p))}
        Before(p) == {r \in kept : r[1] < p[1] \/ (r[1] = p[1] /\ r[2] < p[2])}
        out      == LinesOf(ret.value)
    IN  /\ Len(out) = Cardinality(kept)
        /\ \A p \in kept : out[Cardinality(Before(p)) + 1] = Line(p)
        /\ \A i \in 1..Len(out) : ~Contains(out[i], << "-", "-", ">" >>)

\* The HTTPError handler has classified a 429.
C20_Witness ==
  /\ call.fn = "call_huggingface_api"
  /\ ret.done
  /\ call.arg.kind = "HTTPError"
  /\ call.arg.code = 429
  /\ ret.value = TxtRateLimited

\* C20: for a status other than 200, call_huggingface_api returns a text
\* that depends on the code alone, whether the code is the status of a
\* response or the code of an HTTPError: the "model loading" text for 503, the
\* "rate limited" text for 429, the API-error text with the code otherwise.
C20_StatusClassification ==
  (call.fn = "call_huggingface_api" /\ ret.done
     /\ call.arg.kind \in {"response", "HTTPError"} /\ call.arg.code # 200) =>
    ret.value = CASE call.arg.code = 503 -> Text("model_loading", << >>)
                  [] call.arg.code = 429 -> Text("rate_limited", << >>)
                  [] OTHER -> Text("api_error", str(call.arg.code))

\* Whether an update carries a document, in its message or its channel post.
CarriesDocument(u) ==
  \/ u.message.present /\ u.message.document.present
  \/ u.channel_post.present /\ u.channel_post.document.present

\* The tasks whose process_document has started and whose thread has not
\* gone back to the queue.
OnAWorker == {t \in DOMAIN tasks : tasks[t].pc \notin {"none", "queued", "done"}}

\* Three tasks are running and a fourth waits in the queue.
C11_Witness ==
  /\ Cardinality(OnAWorker) = 3
  /\ Len(queue) = 1
  /\ tasks[queue[1]].pc = "queued"

\* C11: never more than 3 executions of process_document at once; a submitted
\* task that no worker has taken stands in the queue, once, in the order of
\* submission, and is not running.
C11_AtMostThreeAndNoneDropped ==
  /\ Cardinality(OnAWorker) <= 3
  /\ \A t \in DOMAIN tasks : tasks[t].pc = "queued" <=> \E i \in 1..Len(queue) : queue[i] = t
  /\ \A i, j \in 1..Len(queue) : i < j => queue[i] < queue[j]
  /\ \A t \in DOMAIN tasks :
       (t <= delivered /\ tasks[t].update_data # NoUpdate) => tasks[t].pc # "none"

\* All three workers are inside the summarization call, and the handler has
\* just answered /start.
C12_Witness ==
  /\ Cardinality({t \in DOMAIN tasks : tasks[t].pc = "summarize"}) = 3
  /\ call.fn = "webhook_handler"
  /\ ~CarriesDocument(call.arg)
  /\ call.arg.message.text = CmdStart
  /\ welcomes = 1
  /\ tasks[delivered] = BlankTask("none")

\* C12: the handler can take any update and return in every state of the
\* pool, whatever the workers are doing; the update it handled last has a task if and only if it carries a
\* document, and that task was put in the queue; an update without a
\* document has no task, is in no queue and on no worker.
C12_SubmitsDocumentsAndReturns ==
  /\ delivered < PoolUpdates =>
       \A u \in PoolUpdatesOf(delivered + 1) : ENABLED webhook_handler(u)
  /\ call.fn = "webhook_handler" =>
       /\ ret = Returns(<< "o", "k" >>)
       /\ IF CarriesDocument(call.arg)
            THEN /\ tasks[delivered].pc # "none"
                 /\ tasks[delivered].pc # "done" => tasks[delivered].update_data = call.arg
            ELSE /\ tasks[delivered] = BlankTask("none")
                 /\ \A i \in 1..Len(queue) : queue[i] # delivered
                 /\ delivered \notin OnAWorker

\* C13: an exception raised inside process_document ends in an error
\* notification the user can see: the task's status message shows the
\* processing-error text when the task has returned.
C13_ExceptionNotifiesUser ==
  \A t \in TaskIds :
    (Returned(t) /\ \E i \in 1..Len(tasks[t].calls) : tasks[t].calls[i].text.kind = "processing_error") =>
      tasks[t].status_shown.kind = "processing_error"

\* The last of four documents has returned.
C15_Witness ==
  /\ delivered = PoolUpdates
  /\ \A t \in DOMAIN tasks : tasks[t].update_data # NoUpdate \/ tasks[t].pc = "done"
  /\ tasks[PoolUpdates].pc = "returned"
  /\ Cardinality({t \in DOMAIN tasks : tasks[t].pc = "done"}) = PoolUpdates - 1

\* C15: every task put in the queue is started by a worker and its
\* process_document returns (a task leaves the queue only for the first line
\* of process_document), for every way through process_document.
C15_EveryTaskReturns ==
  \A t \in PoolTaskIds : (tasks[t].pc = "queued") ~> (tasks[t].pc = "returned")

====
